---- MODULE Spec2Model ----
(***************************************************************************)
(* Model of the mood-tracker frontend: the Dashboard's weekly trend chart  *)
(* (processChartData), the mood-keyed descriptor lookups, the router, the  *)
(* token-guarded /dashboard route, the sign-up page, the fetcher of the    *)
(* API client, the logging of a mood, the typewriter of the greeting and   *)
(* the reflection modal.                                                   *)
(*                                                                         *)
(* Time is counted in whole hours since 2024-01-01T00:00Z (a Monday).      *)
(* A Date is the number of such hours (its UTC instant).  A dateKey        *)
(* "YYYY-MM-DD" is the tuple <<year, month, day>>; a display label         *)
(* "Jan 4" is the record [month |-> "Jan", day |-> 4].  A JS number that   *)
(* results from a division is the reduced fraction <<num, den>>, and NaN   *)
(* is <<0, 0>>.                                                            *)
(***************************************************************************)
EXTENDS Integers, Sequences, FiniteSets, TLC

VARIABLES
    moodsRangeData,   \* SWR data of '/mood/range?limit=168'
    now,              \* instant returned by the last `new Date()` of a render
    tz,               \* timezone rule of the machine
    chartData,        \* const chartData = processChartData() of the last render
    currentMood,      \* MoodContext.currentMood
    currentTheme,     \* MoodContext.currentTheme
    moodCards,        \* texts of the music and movie cards of the last render
    currentUser,      \* MoodContext.currentUser
    userError,        \* error of useSWR('/user/me')
    route,            \* current location of the router
    navigationType,   \* how the router reached it: POP, PUSH or REPLACE
    token,            \* localStorage 'token'
    user,             \* localStorage 'user'
    firebaseUser,     \* auth.currentUser of Firebase is set
    dashboard,        \* lifecycle of the mounted <Dashboard/>
    toasts,           \* toasts on screen, the newest first
    name,             \* SignUp: the four fields of the form
    email,
    password,
    confirmPassword,
    inFlight,         \* requests sent by fetch() that have not settled
    settled,          \* response and outcome of the last settled fetcher call
    backendMood,      \* the backend's most recent mood of the user
    openModal,        \* Dashboard: the mood log modal is open
    selectedMood,     \* MoodLogModal.selectedMood
    userData,         \* SWR data of '/user/me'
    userValidating,   \* a request of useSWR('/user/me') is in flight
    displayedText,    \* Dashboard.displayedText of the typewriter
    intervals,        \* the typeInterval timers that have not been cleared
    weatherData,      \* SWR data of the weather URL
    openReflectionModal, \* Dashboard: the reflection modal is open
    recommendation,   \* ReflectionModal.recommendation
    isLoading,        \* ReflectionModal.isLoading
    isMutating,       \* isMutating of useSWRMutation('/reflection/recommendation')
    reflections       \* calls of getRecommendation that have not settled, oldest first

vars == <<moodsRangeData, now, tz, chartData, currentMood, currentTheme, moodCards, currentUser, userError, route, navigationType, token, user, firebaseUser, dashboard, toasts, name, email, password, confirmPassword, inFlight, settled, backendMood, openModal, selectedMood, userData, userValidating, displayedText, intervals, weatherData, openReflectionModal, recommendation, isLoading, isMutating, reflections>>

chartVars == <<moodsRangeData, now, tz, chartData>>
moodVars == <<currentMood, currentTheme, moodCards>>
userVars == <<currentUser, userError>>
authVars == <<route, navigationType, token, user, firebaseUser, dashboard>>
formVars == <<name, email, password, confirmPassword>>
netVars == <<inFlight, settled, backendMood>>
modalVars == <<openModal, selectedMood>>
greetVars == <<userData, userValidating, displayedText, intervals>>
reflectVars == <<weatherData, openReflectionModal, recommendation, isLoading, isMutating, reflections>>

----------------------------------------------------------------------------
(* Bounds *)

MaxEntries == 3
\* TOAST_LIMIT of the toast store: the oldest toast beyond it is dropped
ToastLimit == 1
\* requests the model lets be in flight at once
MaxInFlight == 2

----------------------------------------------------------------------------
(* The calendar of the JavaScript Date object, restricted to the year 2024 *)

MonthLengths == <<31, 29, 31, 30, 31, 30, 31, 31, 30, 31, 30, 31>>
MonthNames == <<"Jan", "Feb", "Mar", "Apr", "May", "Jun", "Jul", "Aug", "Sep", "Oct", "Nov", "Dec">>
WeekdayNames == <<"Mon", "Tue", "Wed", "Thu", "Fri", "Sat", "Sun">>

RECURSIVE CivilFrom(_, _)
CivilFrom(m, rest) ==
    IF rest < MonthLengths[m] THEN <<2024, m, rest + 1>>
    ELSE CivilFrom(m + 1, rest - MonthLengths[m])

\* year, month, day of a day number (day 0 is 2024-01-01)
Civil(dayNo) == CivilFrom(1, dayNo)

\* an instant at a given UTC day and hour
At(month, day, hour) ==
    LET RECURSIVE before(_)
        before(m) == IF m = 1 THEN 0 ELSE MonthLengths[m - 1] + before(m - 1)
    IN (before(month) + day - 1) * 24 + hour

\* A timezone rule: UTC offset in hours `before` the transition instant
\* `at` and `after` it (a zone without daylight saving has before = after).
offsetAt(zone, t) == IF t < zone.at THEN zone.before ELSE zone.after

\* local wall-clock hours of an instant
toLocal(zone, t) == t + offsetAt(zone, t)

\* the instant of a local wall-clock time; a skipped or repeated local time
\* is interpreted with the offset in force before the transition
fromLocal(zone, l) ==
    IF l - zone.before < zone.at THEN l - zone.before
    ELSE IF l - zone.after >= zone.at THEN l - zone.after
    ELSE l - zone.before

\* date.toISOString().split('T')[0]
toISODate(t) == Civil(t \div 24)

\* date.toLocaleDateString('en-US', { weekday: 'short' })
toWeekday(zone, t) == WeekdayNames[((toLocal(zone, t) \div 24) % 7) + 1]

\* date.toLocaleDateString('en-US', { month: 'short', day: 'numeric' })
toMonthDay(zone, t) ==
    LET c == Civil(toLocal(zone, t) \div 24)
    IN [month |-> MonthNames[c[2]], day |-> c[3]]

\* date.setDate(date.getDate() - i): same local time of day, i local days back
setDateBack(zone, t, i) ==
    LET l == toLocal(zone, t)
    IN fromLocal(zone, ((l \div 24) - i) * 24 + (l % 24))

----------------------------------------------------------------------------
(* JavaScript numbers produced by the chart code *)

RECURSIVE Gcd(_, _)
Gcd(a, b) == IF b = 0 THEN a ELSE Gcd(b, a % b)

NaN == <<0, 0>>
Num(n) == <<n, 1>>

\* a / b for non-negative integers a and positive b
Div(a, b) == LET g == Gcd(a, b) IN <<a \div g, b \div g>>

IsNaN(x) == x[2] = 0
\* lo <= x <= hi for a number x
InRange(x, lo, hi) == ~IsNaN(x) /\ lo * x[2] <= x[1] /\ x[1] <= hi * x[2]

----------------------------------------------------------------------------
(* Property lookup on an object literal: obj[key] finds the literal's own  *)
(* properties first and then the properties every object inherits from     *)
(* Object.prototype (such as "constructor"), whose values are functions.   *)

InheritedKeys == {"constructor", "toString", "hasOwnProperty"}

Undefined == [type |-> "undefined"]
Function == [type |-> "function"]
Number(n) == [type |-> "number", num |-> n]
String(s) == [type |-> "string", str |-> s]

\* obj[key] for a literal whose own properties are the function `own`
lookup(own, key) ==
    IF key \in DOMAIN own THEN own[key]
    ELSE IF key \in InheritedKeys THEN Function
    ELSE Undefined

\* a || b
orElse(a, b) == IF a = Undefined THEN b ELSE a

----------------------------------------------------------------------------
(* processChartData *)

moodValues ==
    [m \in {"happy", "calm", "neutral", "sad", "angry"} |->
        CASE m = "happy" -> Number(5)
          [] m = "calm" -> Number(4)
          [] m = "neutral" -> Number(3)
          [] m = "sad" -> Number(2)
          [] m = "angry" -> Number(1)]

\* moodValues[mood.mood] || 3
scoreOf(label) == orElse(lookup(moodValues, label), Number(3))

\* the bucket created for the first entry of a dateKey
newBucket(zone, date) ==
    [day |-> toWeekday(zone, date),
     date |-> toMonthDay(zone, date),
     dateKey |-> toISODate(date),
     moods |-> <<>>,
     avgMood |-> Num(0)]

\* moods.forEach(...): group by date (YYYY-MM-DD)
RECURSIVE groupByDate(_, _, _)
groupByDate(zone, moods, dailyData) ==
    IF moods = <<>> THEN dailyData
    ELSE LET mood == Head(moods)
             dateKey == toISODate(mood.date)
             created == IF dateKey \in DOMAIN dailyData
                        THEN dailyData
                        ELSE dailyData @@ (dateKey :> newBucket(zone, mood.date))
             pushed == [created EXCEPT ![dateKey].moods = Append(@, scoreOf(mood.mood))]
         IN groupByDate(zone, Tail(moods), pushed)

\* a + b of two numbers, or of anything with a non-number (string concatenation)
RECURSIVE reduceSum(_, _)
reduceSum(moods, acc) ==
    IF moods = <<>> THEN acc
    ELSE reduceSum(Tail(moods),
                   IF acc.type = "number" /\ Head(moods).type = "number"
                   THEN Number(acc.num + Head(moods).num)
                   ELSE String("concatenation"))

\* day.moods.reduce((a, b) => a + b, 0) / day.moods.length
average(moods) ==
    LET sum == reduceSum(moods, Number(0))
    IN IF sum.type = "number" THEN Div(sum.num, Len(moods)) ELSE NaN

\* Object.keys(dailyData).forEach(...): calculate average for each day
averageDays(dailyData) ==
    [key \in DOMAIN dailyData |->
        [dailyData[key] EXCEPT !.avgMood = average(dailyData[key].moods)]]

\* emptyBucket with the neutral score in place of the 'no data' value
emptyBucketNeutral(zone, date) ==
    [day |-> toWeekday(zone, date),
     date |-> toMonthDay(zone, date),
     dateKey |-> toISODate(date),
     avgMood |-> Num(3)]

\* the bucket pushed for a day of the window that has no entry
emptyBucket(zone, date) ==
    [day |-> toWeekday(zone, date),
     date |-> toMonthDay(zone, date),
     dateKey |-> toISODate(date),
     avgMood |-> Num(0)]

\* one iteration of for (let i = 6; i >= 0; i--)
windowBucket(zone, t, dailyData, i) ==
    LET date == setDateBack(zone, t, i)
        dateKey == toISODate(date)
    IN IF dateKey \in DOMAIN dailyData THEN dailyData[dateKey]
       ELSE emptyBucket(zone, date)

RECURSIVE last7DaysFrom(_, _, _, _)
last7DaysFrom(zone, t, dailyData, i) ==
    IF i < 0 THEN <<>>
    ELSE <<windowBucket(zone, t, dailyData, i)>> \o last7DaysFrom(zone, t, dailyData, i - 1)

\* last7Days that leaves out the days without data
last7DaysOmitEmpty(zone, t, dailyData) ==
    SelectSeq(last7DaysFrom(zone, t, dailyData, 6), LAMBDA b : "moods" \in DOMAIN b)

last7Days(zone, t, dailyData) == last7DaysFrom(zone, t, dailyData, 6)

\* the grouping step: dailyData after both forEach loops
dailyDataOf(zone, moods) == averageDays(groupByDate(zone, moods, <<>>))

\* the early return of processChartData
noChartData(range) ==
    \/ ~range.defined
    \/ ~range.success
    \/ ~range.hasData
    \/ Len(range.data) = 0

processChartData(range, t, zone) ==
    IF noChartData(range) THEN <<>>
    ELSE last7Days(zone, t, dailyDataOf(zone, range.data))

----------------------------------------------------------------------------
(* Descriptors keyed by the current mood *)

Null == [type |-> "null"]
\* localStorage.getItem of an absent item
NoToken == "<no token>"
NoUser == "<no user>"
\* no mood: null, undefined and '' are all falsy and are written ''
NoMood == ""
TypeError == [type |-> "TypeError"]
MoodEntry(label) == [type |-> "object", mood |-> label]

playlistNames ==
    [m \in {"happy", "calm", "sad", "angry", "neutral"} |->
        CASE m = "happy" -> String("Happy Vibes")
          [] m = "calm" -> String("Calm Acoustic")
          [] m = "sad" -> String("Melancholic Mood")
          [] m = "angry" -> String("Intense Energy")
          [] m = "neutral" -> String("Chill Vibes")]

getMoodPlaylistName(mood) == orElse(lookup(playlistNames, mood), String("Your Playlist"))

genreNames ==
    [m \in {"happy", "calm", "sad", "angry", "neutral"} |->
        CASE m = "happy" -> String("Comedy")
          [] m = "calm" -> String("Animation")
          [] m = "sad" -> String("Drama")
          [] m = "angry" -> String("Action")
          [] m = "neutral" -> String("Documentary")]

getMoodMovieGenre(mood) == orElse(lookup(genreNames, mood), String("Movies"))

\* the documented strategy table: it has the keys happy, sad and calm only
recommendationStrategies ==
    [m \in {"happy", "sad", "calm"} |->
        CASE m = "happy" -> [type |-> "object",
                             spotify |-> "upbeat, energetic playlists",
                             movies |-> "comedy, adventure genres",
                             activities |-> "outdoor activities, social events"]
          [] m = "sad" -> [type |-> "object",
                           spotify |-> "calming, soothing playlists",
                           movies |-> "drama, inspirational genres",
                           activities |-> "self-care, journaling"]
          [] m = "calm" -> [type |-> "object",
                            spotify |-> "ambient, instrumental playlists",
                            movies |-> "documentary, nature genres",
                            activities |-> "meditation, reading"]]

\* strategy = recommendationStrategies[mood] || recommendationStrategies.neutral;
\* return strategy().  Calling undefined throws a TypeError; calling an
\* inherited function such as Object returns an object without descriptors.
getRecommendations(mood) ==
    LET strategy == orElse(lookup(recommendationStrategies, mood),
                           lookup(recommendationStrategies, "neutral"))
    IN IF strategy = Undefined THEN TypeError
       ELSE IF strategy = Function THEN [type |-> "object"]
       ELSE strategy

\* the values interpolated into the texts of the music and the movie card
renderCards(mood) ==
    IF mood = Null
    THEN [playlist |-> String("Discover playlists"), movies |-> String("Discover movies")]
    ELSE [playlist |-> getMoodPlaylistName(mood.mood),
          movies |-> [genre |-> getMoodMovieGenre(mood.mood), suffix |-> " Movies"]]

\* the theme table, keyed by the five moods
themes ==
    [m \in {"happy", "calm", "neutral", "sad", "angry"} |-> [type |-> "theme", of |-> m]]

defaultTheme == [type |-> "theme", of |-> "default"]

\* SET_TODAY_MOOD: payload ? themes[payload.mood] || defaultTheme : defaultTheme
moodTheme(payload) ==
    IF payload = Null THEN defaultTheme
    ELSE orElse(lookup(themes, payload.mood), defaultTheme)

----------------------------------------------------------------------------
(* Toasts *)

Toast(type, message) == [type |-> type, message |-> message]

\* toast.error / toast.success: the new toast comes first and the store keeps
\* at most ToastLimit toasts
addToast(ts, t) ==
    LET all == <<t>> \o ts
    IN SubSeq(all, 1, IF Len(all) > ToastLimit THEN ToastLimit ELSE Len(all))

\* the sequence without its i-th element
removeAt(ts, i) == SubSeq(ts, 1, i - 1) \o SubSeq(ts, i + 1, Len(ts))

----------------------------------------------------------------------------
(* The API client *)

API_BASE_URL == "http://localhost:5000/api"

\* String.prototype.includes
includes(s, sub) ==
    \E i \in 1..(Len(s) - Len(sub) + 1) : SubSeq(s, i, i + Len(sub) - 1) = sub

\* the part of a URL before its query string
pathOf(url) ==
    IF includes(url, "?")
    THEN LET i == CHOOSE j \in 1..Len(url) :
                      /\ SubSeq(url, j, j) = "?"
                      /\ ~includes(SubSeq(url, 1, j - 1), "?")
         IN SubSeq(url, 1, i - 1)
    ELSE url

\* options = {}
NoOptions == <<>>

\* JSON.stringify(body)
stringify(body) == [type |-> "string", json |-> body]

\* { method: 'POST', body: arg } of the POST fetchers
postOptions(arg) == [method |-> "POST", body |-> arg]

\* the request of fetcher without the Authorization header
fetcherRequestNoAuth(url, options, tok) ==
    LET config == options @@ [headers |-> ("Content-Type" :> "application/json")]
    IN [url |-> API_BASE_URL \o url,
        config |-> IF "body" \in DOMAIN options /\ options.body.type = "object"
                   THEN [config EXCEPT !.body = stringify(options.body)]
                   ELSE config]

\* fetcher up to its call of fetch: the URL and the config it passes; tok is
\* localStorage.getItem('token') at the time of the call
fetcherRequest(url, options, tok) ==
    LET headers == ("Content-Type" :> "application/json")
                   @@ (IF tok # NoToken /\ tok # ""
                       THEN ("Authorization" :> ("Bearer " \o tok))
                       ELSE <<>>)
        config == options @@ [headers |-> headers]
    IN [url |-> API_BASE_URL \o url,
        config |-> IF "body" \in DOMAIN options /\ options.body.type = "object"
                   THEN [config EXCEPT !.body = stringify(options.body)]
                   ELSE config]

\* a response of the backend or of whatever answers in its place
Response(ok, status, body) == [ok |-> ok, status |-> status, body |-> body]
Json(value) == [json |-> TRUE, value |-> value]
NotJson == [json |-> FALSE]

\* const error = new Error(message); error.status = status
Error(message, status) ==
    [type |-> "Error", name |-> "Error", message |-> message, status |-> status]

\* the rejection of response.json() for a body that is not JSON; its message
\* is the engine's
JsonParseMessages ==
    {"Unexpected token < in JSON at position 0",
     "JSON.parse: unexpected character at line 1 column 1 of the JSON data"}

SyntaxErrors ==
    {[type |-> "Error", name |-> "SyntaxError", message |-> m] : m \in JsonParseMessages}

Returned(data) == [kind |-> "returned", data |-> data]
Thrown(error) == [kind |-> "thrown", error |-> error]

\* data.message || 'Request failed'
messageOr(data, fallback) ==
    IF "message" \in DOMAIN data /\ data.message # "" THEN data.message ELSE fallback

\* fetcher from the response on: the outcomes it can have
fetcherResults(response) ==
    IF ~response.body.json THEN {Thrown(e) : e \in SyntaxErrors}
    ELSE IF ~response.ok
    THEN {Thrown(Error(messageOr(response.body.value, "Request failed"), response.status))}
    ELSE {Returned(response.body.value)}

\* setAuthToken: the value of localStorage 'token' afterwards; a falsy token
\* removes the item
setAuthToken(t) == IF t # "" THEN t ELSE NoToken

----------------------------------------------------------------------------
(* Inputs *)

UTC == [before |-> 0, after |-> 0, at |-> 0]
Helsinki == [before |-> 2, after |-> 2, at |-> 0]
\* daylight saving starts 2024-03-10 02:00 EST
NewYork == [before |-> -5, after |-> -4, at |-> At(3, 10, 7)]
\* daylight saving ends 2024-04-07 03:00 AEDT
Sydney == [before |-> 11, after |-> 10, at |-> At(4, 6, 16)]

\* the machines and the instants at which the Dashboard renders on them
Clocks ==
    {[zone |-> UTC, now |-> At(1, 10, 12)],
     [zone |-> Helsinki, now |-> At(1, 10, 23)],
     [zone |-> Helsinki, now |-> At(1, 11, 10)],
     [zone |-> NewYork, now |-> At(1, 11, 2)],
     [zone |-> NewYork, now |-> At(3, 12, 16)],
     [zone |-> NewYork, now |-> At(3, 12, 23)],
     [zone |-> Sydney, now |-> At(4, 8, 0)]}

KnownLabels == {"happy", "calm", "neutral", "sad", "angry"}
\* an unknown label, the empty label, a missing label, an inherited key
OtherLabels == {"grumpy", "", "undefined", "constructor"}
Labels == KnownLabels \cup OtherLabels

\* labels of the entries of a range response
EntryLabels == {"happy", "grumpy", "constructor"}
\* two of the instants have the same UTC date and different local dates in
\* Helsinki and in New York
EntryDates == {At(1, 9, 23), At(1, 10, 1), At(1, 10, 23)}
Entries == [date : EntryDates, mood : EntryLabels]

EntryLists == UNION {[1..n -> Entries] : n \in 0..MaxEntries}

RangeResponse(success, hasData, data) ==
    [defined |-> TRUE, success |-> success, hasData |-> hasData, data |-> data]

\* bodies of an ok response of GET /mood/range
RangeResponses ==
    {RangeResponse(TRUE, TRUE, l) : l \in EntryLists}
    \cup {RangeResponse(TRUE, FALSE, <<>>), RangeResponse(FALSE, FALSE, <<>>)}
    \cup {RangeResponse(FALSE, TRUE, <<e>>) : e \in Entries}

\* bodies of an ok response of GET /mood/today
TodayResponses ==
    {[success |-> TRUE, data |-> MoodEntry(l)] : l \in Labels}
    \cup {[success |-> TRUE, data |-> Null], [success |-> FALSE, data |-> Null]}

\* bodies of an ok response of GET /user/me
UserResponses ==
    {[success |-> TRUE, data |-> [type |-> "object", name |-> n]] : n \in {"Ada", "Bo"}}
    \cup {[success |-> FALSE, data |-> Null]}

\* responses of GET /user/me that make the fetcher throw
UserFailResponses ==
    {Response(FALSE, 401, Json([success |-> FALSE, message |-> "Unauthorized"])),
     Response(FALSE, 401, Json([success |-> FALSE])),
     Response(FALSE, 403, Json([success |-> FALSE, message |-> "Invalid token"])),
     Response(FALSE, 404, Json([success |-> FALSE, message |-> "User not found"])),
     Response(FALSE, 500, Json([success |-> FALSE])),
     Response(FALSE, 502, NotJson)}

\* the errors useSWR('/user/me') can deliver
UserErrors == {r.error : r \in UNION {fetcherResults(resp) : resp \in UserFailResponses}}

Tokens == {"jwt"}
\* the URLs a browser is pointed at: the routes and one that matches no route
Urls == {"/", "/signin", "/signup", "/dashboard", "/profile"}

----------------------------------------------------------------------------
(* The greeting and its typewriter *)

\* new Date().getHours()
getHours(zone, t) == toLocal(zone, t) % 24

getGreeting(zone, t) ==
    LET hour == getHours(zone, t)
    IN IF hour < 12 THEN "Good morning"
       ELSE IF hour < 17 THEN "Good afternoon"
       ELSE "Good evening"

\* currentUser?.name || 'User'
username(u) == IF u = Null \/ u.name = "" THEN "User" ELSE u.name

\* `${greeting}, ${username}!`
fullGreeting(zone, t, u) == getGreeting(zone, t) \o ", " \o username(u) \o "!"

\* String.prototype.slice(from, to) for 0 <= from <= to
slice(s, from, to) == SubSeq(s, from + 1, IF to > Len(s) THEN Len(s) ELSE to)

\* isLoading of useSWR: a request is in flight and no data has been loaded
userLoading(data, validating) == validating /\ data = Undefined

\* the dependencies [userLoading, username, fullGreeting] of the effect
greetingDeps(data, validating, u, zone, t) ==
    <<userLoading(data, validating), username(u), fullGreeting(zone, t, u)>>

\* setInterval(..., 50) with let currentIndex = 0 in its closure; the delay
\* is in milliseconds
typeInterval(text) == [fullGreeting |-> text, currentIndex |-> 0, delay |-> 50]

\* the timers after the effect that never clears the previous one
typewriterIntervalsNoCleanup(old, new, timers) ==
    IF old = new THEN timers
    ELSE IF ~new[1] THEN timers \cup {typeInterval(new[3])}
    ELSE timers

\* the timers after a render with the dependencies `new`, `old` being those
\* of the render before: when they differ the cleanup clears the timer of the
\* previous run, and the effect starts one if (!userLoading && username)
typewriterIntervals(old, new, timers) ==
    IF old = new THEN timers
    ELSE IF ~new[1] THEN {typeInterval(new[3])}
    ELSE {}

\* displayedText after that render: setDisplayedText('') when the effect runs
typewriterText(old, new, text) ==
    IF old # new /\ ~new[1] THEN "" ELSE text

\* the typewriter effect across a step that renders the Dashboard
typewriter ==
    LET old == greetingDeps(userData, userValidating, currentUser, tz, now)
        new == greetingDeps(userData', userValidating', currentUser', tz', now')
    IN /\ intervals' = typewriterIntervals(old, new, intervals)
       /\ displayedText' = typewriterText(old, new, displayedText)

\* the typewriter effect of the first render: it types at once when the
\* cache of useSWR already holds the user data
mountTypewriter ==
    /\ displayedText' = ""
    /\ intervals' = IF userLoading(userData', userValidating') THEN {}
                    ELSE {typeInterval(fullGreeting(tz', now', currentUser'))}

----------------------------------------------------------------------------
(* The reflection modal *)

\* mood={currentMood?.mood || null}
moodProp(m) == IF m = Null THEN NoMood ELSE m.mood

\* weather={weatherData?.success && weatherData.data ? {...} : null}: the
\* object literal is a new object in every render of the Dashboard
weatherProp(data) ==
    IF data # Undefined /\ data.success /\ data.data # Null
    THEN [description |-> data.data.description, temperature |-> data.data.temperature]
    ELSE Null

\* useCallback(..., [getRecommendation, mood, weather]) returns a new
\* function after a render iff a dependency is not Object.is-equal to the
\* one of the render before: two weather objects never are
fetchRecommendationChanges(mood1, mood2, weather1, weather2) ==
    \/ mood1 # mood2
    \/ weather1 # Null
    \/ weather2 # Null

\* { mood: mood || 'neutral', weather: weather || null, preferences: {} }
recommendationArg(mood, weather) ==
    [type |-> "object",
     mood |-> IF mood = NoMood THEN "neutral" ELSE mood,
     weather |-> weather,
     preferences |-> [type |-> "object"]]

\* getReflectionRecommendationFetcher up to its call of fetch
reflectionRequest(url, arg, tok) ==
    [url |-> API_BASE_URL \o url,
     config |-> [method |-> "POST",
                 headers |-> ("Content-Type" :> "application/json")
                             @@ ("Authorization" :> ("Bearer " \o tok)),
                 body |-> stringify(arg)]]

\* getReflectionRecommendationFetcher from the response on
reflectionResults(response) ==
    IF ~response.ok
    THEN {Thrown([type |-> "Error", name |-> "Error",
                  message |-> IF response.body.json
                              THEN messageOr(response.body.value,
                                             "Failed to get reflection recommendation")
                              ELSE "Request failed"])}
    ELSE IF ~response.body.json THEN {Thrown(e) : e \in SyntaxErrors}
    ELSE {Returned(response.body.value)}

\* fetchRecommendation up to its await: without a token the fetcher throws
\* and the catch and finally blocks run at once
fetchRecommendation(mood, weather) ==
    IF token = NoToken
    THEN /\ isLoading' = FALSE
         /\ isMutating' = FALSE
         /\ toasts' = addToast(toasts, Toast("error", "No authentication token found"))
         /\ UNCHANGED reflections
    ELSE /\ isLoading' = TRUE
         /\ isMutating' = TRUE
         /\ reflections' = Append(reflections,
                reflectionRequest("/reflection/recommendation",
                                  recommendationArg(mood, weather), token))
         /\ UNCHANGED toasts

\* the effect of ReflectionModal on [open, fetchRecommendation] across a
\* step that renders the Dashboard; the Dashboard renders the modal unless
\* (moodLoading || userLoading), and the effect runs when the modal mounts
reflectionEffect ==
    IF userLoading(userData', userValidating')
    THEN UNCHANGED <<recommendation, isLoading, isMutating, reflections, toasts>>
    ELSE
    IF \/ userLoading(userData, userValidating)
       \/ openReflectionModal' # openReflectionModal
       \/ fetchRecommendationChanges(moodProp(currentMood), moodProp(currentMood'),
                                     weatherProp(weatherData), weatherProp(weatherData'))
    THEN IF openReflectionModal'
         THEN /\ Len(reflections) < MaxInFlight
              /\ fetchRecommendation(moodProp(currentMood'), weatherProp(weatherData'))
              /\ UNCHANGED recommendation
         ELSE /\ recommendation' = Null
              /\ UNCHANGED <<isLoading, isMutating, reflections, toasts>>
    ELSE UNCHANGED <<recommendation, isLoading, isMutating, reflections, toasts>>

----------------------------------------------------------------------------
(* The Dashboard's data and renders *)

\* useSWR('/mood/range?limit=168') delivers its first data; the Dashboard renders
RangeDataLoaded(resp) ==
    /\ dashboard = "mounted"
    /\ ~moodsRangeData.defined
    /\ moodsRangeData' = resp
    /\ chartData' = processChartData(resp, now, tz)
    /\ UNCHANGED <<now, tz, moodVars, userVars, authVars, toasts, formVars, netVars, modalVars, greetVars, reflectVars>>

\* a revalidation of the range delivers the list with a new entry (first or
\* last); the Dashboard renders
RangeRevalidated(entry, first) ==
    /\ dashboard = "mounted"
    /\ moodsRangeData.defined
    /\ Len(moodsRangeData.data) < MaxEntries
    /\ moodsRangeData' = RangeResponse(TRUE, TRUE,
            IF first THEN <<entry>> \o moodsRangeData.data
            ELSE Append(moodsRangeData.data, entry))
    /\ chartData' = processChartData(moodsRangeData', now, tz)
    /\ UNCHANGED <<now, tz, moodVars, userVars, authVars, toasts, formVars, netVars, modalVars, greetVars, reflectVars>>

\* a later render of the Dashboard: processChartData reads the clock again
ReRender(clock) ==
    /\ dashboard = "mounted"
    /\ clock.zone = tz
    /\ clock.now # now
    /\ now' = clock.now
    /\ chartData' = processChartData(moodsRangeData, clock.now, tz)
    /\ UNCHANGED <<moodsRangeData, tz, moodVars, userVars, authVars, formVars, netVars, modalVars, userData, userValidating, weatherData, openReflectionModal>>
    /\ typewriter
    /\ reflectionEffect

\* the effect of MoodLogModal on [open, currentMood]:
\* if (open) setSelectedMood(currentMood?.mood || null)
modalEffect(open, mood, selected) ==
    IF open THEN (IF mood = Null THEN NoMood ELSE mood.mood) ELSE selected

\* useSWR('/mood/today') delivers data: the effect updates the context, and
\* the open modal follows the new current mood
TodayMoodLoaded(resp) ==
    /\ dashboard = "mounted"
    /\ currentMood' = IF resp.success THEN resp.data ELSE currentMood
    /\ currentTheme' = IF resp.success THEN moodTheme(resp.data) ELSE currentTheme
    /\ moodCards' = renderCards(currentMood')
    /\ selectedMood' = IF currentMood' # currentMood
                       THEN modalEffect(openModal, currentMood', selectedMood)
                       ELSE selectedMood
    /\ UNCHANGED <<chartVars, userVars, authVars, formVars, netVars, openModal, greetVars, weatherData, openReflectionModal>>
    /\ reflectionEffect

\* the test without the status
isAuthErrorByMessage(error) ==
    \/ includes(error.message, "token")
    \/ includes(error.message, "Unauthorized")

\* error.status === 401 || error.message?.includes('token')
\*   || error.message?.includes('Unauthorized')
isAuthError(error) ==
    \/ "status" \in DOMAIN error /\ error.status = 401
    \/ includes(error.message, "token")
    \/ includes(error.message, "Unauthorized")

\* useSWR('/user/me') delivers data: the effect updates the context, and the
\* typewriter starts for the greeting of the render
UserMeLoaded(resp) ==
    /\ dashboard = "mounted"
    /\ userValidating
    /\ userValidating' = FALSE
    /\ userData' = resp
    /\ userError' = Null
    /\ currentUser' = IF resp.success /\ resp.data # Null THEN resp.data ELSE currentUser
    /\ UNCHANGED <<chartVars, moodVars, authVars, formVars, netVars, modalVars, weatherData, openReflectionModal>>
    /\ typewriter
    /\ reflectionEffect

\* useSWR('/user/me') fails: onError and the effect on userError
UserMeFailed(error) ==
    /\ dashboard = "mounted"
    /\ userValidating
    /\ userValidating' = FALSE
    /\ userError' = error
    /\ UNCHANGED <<chartVars, moodVars, currentUser, firebaseUser, formVars, netVars, modalVars, userData, weatherData, openReflectionModal>>
    /\ IF isAuthError(error)
       THEN /\ token' = NoToken
            /\ user' = NoUser
            /\ route' = "/signin"
            /\ navigationType' = "PUSH"
            /\ dashboard' = "unmounted"
            /\ intervals' = {}
            /\ displayedText' = ""
            /\ UNCHANGED <<recommendation, isLoading, isMutating, reflections, toasts>>
       ELSE /\ typewriter
            /\ reflectionEffect
            /\ UNCHANGED <<token, user, route, navigationType, dashboard>>

\* useSWR('/user/me') revalidates: on focus, on reconnect, or as the retry
\* after an error
UserMeRevalidates ==
    /\ dashboard = "mounted"
    /\ ~userValidating
    /\ userValidating' = TRUE
    /\ UNCHANGED <<chartVars, moodVars, userVars, authVars, toasts, formVars, netVars, modalVars, userData, reflectVars>>
    /\ typewriter

----------------------------------------------------------------------------
(* Routing and authentication *)

\* the routing of the design document: the root path renders the Dashboard
routeElementDocumented(path) ==
    CASE path = "/signin" -> "SignIn"
      [] path = "/signup" -> "SignUp"
      [] path \in {"/dashboard", "/"} -> "Dashboard"
      [] OTHER -> "none"

\* <Routes> of ThemedApp: the element rendered for a path, "none" when no
\* route matches
routeElement(path) ==
    CASE path = "/signin" -> "SignIn"
      [] path = "/signup" -> "SignUp"
      [] path = "/dashboard" -> "Dashboard"
      [] path = "/" -> "Navigate"
      [] OTHER -> "none"

\* a page load of a URL: all in-memory state starts afresh; a <Navigate>
\* leaves its path as it renders, before anything else happens
Goto(url) ==
    /\ dashboard # "mounting"
    /\ routeElement(route) # "Navigate"
    /\ route' = url
    /\ navigationType' = "POP"
    /\ dashboard' = IF routeElement(url) = "Dashboard" THEN "mounting" ELSE "unmounted"
    /\ moodsRangeData' = [defined |-> FALSE]
    /\ chartData' = <<>>
    /\ currentMood' = Null
    /\ currentTheme' = defaultTheme
    /\ moodCards' = renderCards(Null)
    /\ currentUser' = Null
    /\ userError' = Null
    /\ toasts' = <<>>
    /\ name' = ""
    /\ email' = ""
    /\ password' = ""
    /\ confirmPassword' = ""
    /\ inFlight' = {}
    /\ settled' = Null
    /\ openModal' = FALSE
    /\ selectedMood' = NoMood
    /\ userData' = Undefined
    /\ userValidating' = (routeElement(url) = "Dashboard")
    /\ displayedText' = ""
    /\ intervals' = {}
    /\ weatherData' = Undefined
    /\ openReflectionModal' = FALSE
    /\ recommendation' = Null
    /\ isLoading' = FALSE
    /\ isMutating' = FALSE
    /\ reflections' = <<>>
    /\ UNCHANGED <<now, tz, token, user, firebaseUser, backendMood>>

\* <Route path="/" element={<Navigate to="/signin" replace />} />
RootRedirect ==
    /\ routeElement(route) = "Navigate"
    /\ route' = "/signin"
    /\ navigationType' = "REPLACE"
    /\ UNCHANGED <<chartVars, moodVars, userVars, token, user, firebaseUser, dashboard, toasts, formVars, netVars, modalVars, greetVars, reflectVars>>

\* DashboardAuthEffect without the token check
DashboardAuthEffectNoCheck ==
    /\ dashboard = "mounting"
    /\ dashboard' = "mounted"
    /\ userValidating' = TRUE
    /\ UNCHANGED <<chartVars, moodVars, userVars, route, navigationType, token, user, firebaseUser, toasts, formVars, netVars, modalVars, userData, reflectVars>>
    /\ mountTypewriter

\* the first effect of the Dashboard: check authentication; the mount also
\* starts the request of useSWR('/user/me') and runs the typewriter effect
DashboardAuthEffect ==
    /\ dashboard = "mounting"
    /\ IF token = NoToken
       THEN /\ route' = "/signin"
            /\ navigationType' = "PUSH"
            /\ dashboard' = "redirected"
       ELSE /\ dashboard' = "mounted"
            /\ UNCHANGED <<route, navigationType>>
    /\ userValidating' = TRUE
    /\ UNCHANGED <<chartVars, moodVars, userVars, token, user, firebaseUser, toasts, formVars, netVars, modalVars, userData, reflectVars>>
    /\ mountTypewriter

\* the tests put a token into localStorage while on the sign-in page
StorageSetToken(t) ==
    /\ route = "/signin"
    /\ token' = t
    /\ UNCHANGED <<chartVars, moodVars, userVars, route, navigationType, user, firebaseUser, dashboard, toasts, formVars, netVars, modalVars, greetVars, reflectVars>>

\* the tests clear localStorage while on the sign-in page
StorageClear ==
    /\ route = "/signin"
    /\ token' = NoToken
    /\ user' = NoUser
    /\ UNCHANGED <<chartVars, moodVars, userVars, route, navigationType, firebaseUser, dashboard, toasts, formVars, netVars, modalVars, greetVars, reflectVars>>

\* handleLogout of the Header; signOutOk tells whether signOut(auth) resolves
Logout(signOutOk) ==
    /\ dashboard = "mounted"
    /\ token' = NoToken
    /\ user' = NoUser
    /\ IF firebaseUser /\ ~signOutOk
       THEN /\ toasts' = addToast(toasts, Toast("error", "Error logging out"))
            /\ UNCHANGED <<route, navigationType, dashboard, firebaseUser, displayedText, intervals>>
       ELSE /\ firebaseUser' = FALSE
            /\ toasts' = addToast(toasts, Toast("success", "Logged out successfully"))
            /\ route' = "/signin"
            /\ navigationType' = "PUSH"
            /\ dashboard' = "unmounted"
            /\ intervals' = {}
            /\ displayedText' = ""
    /\ UNCHANGED <<chartVars, moodVars, userVars, formVars, netVars, modalVars, userData, userValidating, reflectVars>>

\* a toast disappears when its duration has passed
ToastExpires(i) ==
    /\ i \in 1..Len(toasts)
    /\ toasts' = removeAt(toasts, i)
    /\ UNCHANGED <<chartVars, moodVars, userVars, authVars, formVars, netVars, modalVars, greetVars, reflectVars>>

----------------------------------------------------------------------------
(* The sign-up page *)

\* isMutating of useSWRMutation('/signup', signupFetcher)
loading == \E req \in inFlight : req.url = API_BASE_URL \o "/signup"

\* onChange of the four text fields
setName(v) ==
    /\ routeElement(route) = "SignUp"
    /\ name' = v
    /\ UNCHANGED <<chartVars, moodVars, userVars, authVars, toasts, email, password, confirmPassword, netVars, modalVars, greetVars, reflectVars>>

setEmail(v) ==
    /\ routeElement(route) = "SignUp"
    /\ email' = v
    /\ UNCHANGED <<chartVars, moodVars, userVars, authVars, toasts, name, password, confirmPassword, netVars, modalVars, greetVars, reflectVars>>

setPassword(v) ==
    /\ routeElement(route) = "SignUp"
    /\ password' = v
    /\ UNCHANGED <<chartVars, moodVars, userVars, authVars, toasts, name, email, confirmPassword, netVars, modalVars, greetVars, reflectVars>>

setConfirmPassword(v) ==
    /\ routeElement(route) = "SignUp"
    /\ confirmPassword' = v
    /\ UNCHANGED <<chartVars, moodVars, userVars, authVars, toasts, name, email, password, netVars, modalVars, greetVars, reflectVars>>

\* handleGoogleSignUp: the popup resolves and the page navigates
GoogleSignUpSucceeds ==
    /\ routeElement(route) = "SignUp"
    /\ ~loading
    /\ firebaseUser' = TRUE
    /\ toasts' = addToast(toasts, Toast("success", "Account created successfully!"))
    /\ route' = "/dashboard"
    /\ navigationType' = "PUSH"
    /\ dashboard' = "mounting"
    /\ UNCHANGED <<chartVars, moodVars, userVars, token, user, formVars, netVars, modalVars, greetVars, reflectVars>>

\* handleGoogleSignUp: the popup rejects with an error of the given message
GoogleSignUpFails(message) ==
    /\ routeElement(route) = "SignUp"
    /\ ~loading
    /\ toasts' = addToast(toasts,
            Toast("error", IF message # "" THEN message ELSE "Failed to create account"))
    /\ UNCHANGED <<chartVars, moodVars, userVars, authVars, formVars, netVars, modalVars, greetVars, reflectVars>>

\* handleEmailSignUp without the check of the password's length
handleEmailSignUpAnyLength ==
    /\ routeElement(route) = "SignUp"
    /\ ~loading
    /\ IF name = "" \/ email = "" \/ password = "" \/ confirmPassword = ""
       THEN /\ toasts' = addToast(toasts, Toast("error", "Please fill in all fields"))
            /\ UNCHANGED inFlight
       ELSE IF password # confirmPassword
       THEN /\ toasts' = addToast(toasts, Toast("error", "Passwords do not match"))
            /\ UNCHANGED inFlight
       ELSE /\ inFlight' = inFlight \cup
                {fetcherRequest("/signup",
                    postOptions([type |-> "object", name |-> name, email |-> email,
                                 password |-> password]),
                    token)}
            /\ UNCHANGED toasts
    /\ UNCHANGED <<chartVars, moodVars, userVars, authVars, formVars, settled, backendMood, modalVars, greetVars, reflectVars>>

\* handleEmailSignUp up to its await: the three validations, then the request
handleEmailSignUp ==
    /\ routeElement(route) = "SignUp"
    /\ ~loading
    /\ IF name = "" \/ email = "" \/ password = "" \/ confirmPassword = ""
       THEN /\ toasts' = addToast(toasts, Toast("error", "Please fill in all fields"))
            /\ UNCHANGED inFlight
       ELSE IF password # confirmPassword
       THEN /\ toasts' = addToast(toasts, Toast("error", "Passwords do not match"))
            /\ UNCHANGED inFlight
       ELSE IF Len(password) < 6
       THEN /\ toasts' = addToast(toasts,
                    Toast("error", "Password must be at least 6 characters"))
            /\ UNCHANGED inFlight
       ELSE /\ inFlight' = inFlight \cup
                {fetcherRequest("/signup",
                    postOptions([type |-> "object", name |-> name, email |-> email,
                                 password |-> password]),
                    token)}
            /\ UNCHANGED toasts
    /\ UNCHANGED <<chartVars, moodVars, userVars, authVars, formVars, settled, backendMood, modalVars, greetVars, reflectVars>>

\* JSON.stringify(response.user)
userJson(u) == "{\"name\":\"" \o u.name \o "\"}"

\* handleEmailSignUp from its await on, navigating without storing the token
SignUpSettlesNoStore(req, response) ==
    /\ routeElement(route) = "SignUp"
    /\ req \in inFlight
    /\ req.url = API_BASE_URL \o "/signup"
    /\ \E result \in fetcherResults(response) :
        /\ settled' = [response |-> response, result |-> result]
        /\ inFlight' = inFlight \ {req}
        /\ IF result.kind = "returned"
           THEN IF result.data.success
                THEN /\ user' = IF "user" \in DOMAIN result.data
                                THEN userJson(result.data.user) ELSE user
                     /\ toasts' = addToast(toasts, Toast("success",
                            messageOr(result.data, "Account created successfully!")))
                     /\ route' = "/dashboard"
                     /\ navigationType' = "PUSH"
                     /\ dashboard' = "mounting"
                     /\ UNCHANGED token
                ELSE UNCHANGED <<token, user, toasts, route, navigationType, dashboard>>
           ELSE /\ toasts' = addToast(toasts, Toast("error",
                        messageOr(result.error, "Failed to create account")))
                /\ UNCHANGED <<token, user, route, navigationType, dashboard>>
    /\ UNCHANGED <<chartVars, moodVars, userVars, firebaseUser, formVars, backendMood, modalVars, greetVars, reflectVars>>

\* handleEmailSignUp from its await on: the request settles
SignUpSettles(req, response) ==
    /\ routeElement(route) = "SignUp"
    /\ req \in inFlight
    /\ req.url = API_BASE_URL \o "/signup"
    /\ \E result \in fetcherResults(response) :
        /\ settled' = [response |-> response, result |-> result]
        /\ inFlight' = inFlight \ {req}
        /\ IF result.kind = "returned"
           THEN IF result.data.success
                THEN /\ token' = setAuthToken(result.data.token)
                     /\ user' = IF "user" \in DOMAIN result.data
                                THEN userJson(result.data.user) ELSE user
                     /\ toasts' = addToast(toasts, Toast("success",
                            messageOr(result.data, "Account created successfully!")))
                     /\ route' = "/dashboard"
                     /\ navigationType' = "PUSH"
                     /\ dashboard' = "mounting"
                ELSE UNCHANGED <<token, user, toasts, route, navigationType, dashboard>>
           ELSE /\ toasts' = addToast(toasts, Toast("error",
                        messageOr(result.error, "Failed to create account")))
                /\ UNCHANGED <<token, user, route, navigationType, dashboard>>
    /\ UNCHANGED <<chartVars, moodVars, userVars, firebaseUser, formVars, backendMood, modalVars, greetVars, reflectVars>>

----------------------------------------------------------------------------
(* Requests of the mounted Dashboard *)

\* the location of New York, used while the user's location is unknown
weatherUrl == "/weather/current?lat=40.7128&lon=-74.0060"

\* the keys of the useSWR hooks of the Dashboard, of SpotifyModal and of
\* MovieModal for the mood handed to the modals
swrKeys(mood) ==
    {"/user/me", "/mood/today", "/mood/range?limit=168", weatherUrl}
    \cup (IF mood # Null /\ mood.mood # ""
          THEN {"/spotify/playlists?mood=" \o mood.mood,
                "/movie/movies?mood=" \o mood.mood}
          ELSE {})

\* useSWR calls the fetcher of a key that is not being fetched
SWRFetch(key) ==
    /\ dashboard = "mounted"
    /\ key \in swrKeys(currentMood)
    /\ Cardinality(inFlight) < MaxInFlight
    /\ ~\E req \in inFlight : req.url = API_BASE_URL \o key
    /\ inFlight' = inFlight \cup {fetcherRequest(key, NoOptions, token)}
    /\ UNCHANGED <<chartVars, moodVars, userVars, authVars, toasts, formVars, settled, backendMood, modalVars, greetVars, reflectVars>>

\* fetch resolves with a response and the fetcher settles
Settle(req, response) ==
    /\ req \in inFlight
    /\ \E result \in fetcherResults(response) :
        settled' = [response |-> response, result |-> result]
    /\ inFlight' = inFlight \ {req}
    /\ UNCHANGED <<chartVars, moodVars, userVars, authVars, toasts, formVars, backendMood, modalVars, greetVars, reflectVars>>

----------------------------------------------------------------------------
(* Logging a mood *)

\* isMutating of useSWRMutation('/mood/today', addTodayMoodFetcher)
isAddingMood ==
    \E req \in inFlight :
        req.url = API_BASE_URL \o "/mood/today" /\ "method" \in DOMAIN req.config

\* the requests of mutate() and mutateRange()
todayRequest(tok) == fetcherRequest("/mood/today", NoOptions, tok)
rangeRequest(tok) == fetcherRequest("/mood/range?limit=168", NoOptions, tok)

\* the button of the Dashboard: setOpenModal(true), and the modal's effect
OpenModal ==
    /\ dashboard = "mounted"
    /\ ~openModal
    /\ openModal' = TRUE
    /\ selectedMood' = modalEffect(TRUE, currentMood, selectedMood)
    /\ UNCHANGED <<chartVars, moodVars, userVars, authVars, toasts, formVars, netVars, greetVars, reflectVars>>

\* a mood option of the modal is clicked
setSelectedMood(m) ==
    /\ dashboard = "mounted"
    /\ openModal
    /\ selectedMood' = m
    /\ UNCHANGED <<chartVars, moodVars, userVars, authVars, toasts, formVars, netVars, openModal, greetVars, reflectVars>>

\* handleClose of the modal
handleClose ==
    /\ dashboard = "mounted"
    /\ openModal
    /\ selectedMood' = NoMood
    /\ openModal' = FALSE
    /\ UNCHANGED <<chartVars, moodVars, userVars, authVars, toasts, formVars, netVars, greetVars, reflectVars>>

\* handleSubmit up to its await; the handler itself rejects a missing mood
handleSubmit ==
    /\ dashboard = "mounted"
    /\ openModal
    /\ ~isAddingMood
    /\ IF selectedMood = NoMood
       THEN /\ toasts' = addToast(toasts, Toast("error", "Please select a mood"))
            /\ UNCHANGED inFlight
       ELSE /\ inFlight' = inFlight \cup
                {fetcherRequest("/mood/today",
                    postOptions([type |-> "object", mood |-> selectedMood, notes |-> ""]),
                    token)}
            /\ UNCHANGED toasts
    /\ UNCHANGED <<chartVars, moodVars, userVars, authVars, formVars, settled, backendMood, modalVars, greetVars, reflectVars>>

\* handleSubmit from its await on, calling onMoodLogged for every response
AddMoodSettlesUnchecked(req, response) ==
    /\ dashboard = "mounted"
    /\ req \in inFlight
    /\ req.url = API_BASE_URL \o "/mood/today"
    /\ "method" \in DOMAIN req.config
    /\ \E result \in fetcherResults(response) :
        /\ settled' = [response |-> response, result |-> result]
        /\ backendMood' = IF result.kind = "returned" /\ result.data.success
                          THEN MoodEntry(req.config.body.json.mood)
                          ELSE backendMood
        /\ toasts' = IF result.kind = "returned"
                     THEN addToast(toasts, Toast("success",
                            messageOr(result.data, "Mood logged successfully!")))
                     ELSE addToast(toasts, Toast("error",
                            messageOr(result.error, "Failed to log mood")))
        /\ inFlight' = (inFlight \ {req}) \cup {todayRequest(token), rangeRequest(token)}
        /\ openModal' = FALSE
    /\ UNCHANGED <<chartVars, moodVars, userVars, authVars, formVars, selectedMood, greetVars, reflectVars>>

\* handleSubmit from its await on: the request settles; a success calls
\* onMoodLogged, which is handleMoodLogged: mutate(), mutateRange(),
\* setOpenModal(false).  The backend has recorded a mood it reports as logged.
AddMoodSettles(req, response) ==
    /\ dashboard = "mounted"
    /\ req \in inFlight
    /\ req.url = API_BASE_URL \o "/mood/today"
    /\ "method" \in DOMAIN req.config
    /\ \E result \in fetcherResults(response) :
        /\ settled' = [response |-> response, result |-> result]
        /\ IF result.kind = "returned"
           THEN IF result.data.success
                THEN /\ backendMood' = MoodEntry(req.config.body.json.mood)
                     /\ toasts' = addToast(toasts, Toast("success",
                            messageOr(result.data, "Mood logged successfully!")))
                     /\ inFlight' = (inFlight \ {req})
                            \cup {todayRequest(token), rangeRequest(token)}
                     /\ openModal' = FALSE
                ELSE /\ inFlight' = inFlight \ {req}
                     /\ UNCHANGED <<backendMood, toasts, openModal>>
           ELSE /\ toasts' = addToast(toasts, Toast("error",
                        messageOr(result.error, "Failed to log mood")))
                /\ inFlight' = inFlight \ {req}
                /\ UNCHANGED <<backendMood, openModal>>
    /\ UNCHANGED <<chartVars, moodVars, userVars, authVars, formVars, selectedMood, greetVars, reflectVars>>

\* the revalidation of '/mood/today' completes with the backend's most recent
\* mood: the effect updates the context
TodayRevalidated(req) ==
    /\ dashboard = "mounted"
    /\ req \in inFlight
    /\ req.url = API_BASE_URL \o "/mood/today"
    /\ "method" \notin DOMAIN req.config
    /\ LET response == Response(TRUE, 200, Json([success |-> TRUE, data |-> backendMood]))
       IN \E result \in fetcherResults(response) :
            /\ settled' = [response |-> response, result |-> result]
            /\ currentMood' = result.data.data
            /\ currentTheme' = moodTheme(result.data.data)
    /\ moodCards' = renderCards(currentMood')
    /\ selectedMood' = IF currentMood' # currentMood
                       THEN modalEffect(openModal, currentMood', selectedMood)
                       ELSE selectedMood
    /\ inFlight' = inFlight \ {req}
    /\ UNCHANGED <<chartVars, userVars, authVars, toasts, formVars, backendMood, openModal, greetVars, reflectVars>>

\* the revalidation of the range completes: the list has the logged mood as
\* its newest entry (first or last) and holds at most MaxEntries entries
RangeMutated(req, first) ==
    /\ dashboard = "mounted"
    /\ req \in inFlight
    /\ req.url = API_BASE_URL \o "/mood/range?limit=168"
    /\ moodsRangeData.defined
    /\ backendMood # Null
    /\ LET entry == [date |-> now, mood |-> backendMood.mood]
           old == moodsRangeData.data
           kept == IF Len(old) < MaxEntries THEN old
                   ELSE IF first THEN SubSeq(old, 1, Len(old) - 1)
                   ELSE SubSeq(old, 2, Len(old))
       IN moodsRangeData' = RangeResponse(TRUE, TRUE,
                IF first THEN <<entry>> \o kept ELSE Append(kept, entry))
    /\ chartData' = processChartData(moodsRangeData', now, tz)
    /\ inFlight' = inFlight \ {req}
    /\ UNCHANGED <<now, tz, moodVars, userVars, authVars, toasts, formVars, settled, backendMood, modalVars, greetVars, reflectVars>>

----------------------------------------------------------------------------
(* The typewriter and the reflection modal: their steps *)

\* a tick of a typeInterval that has not been cleared; setDisplayedText
\* renders the Dashboard
TypeTick(timer) ==
    /\ dashboard = "mounted"
    /\ timer \in intervals
    /\ UNCHANGED <<chartVars, moodVars, userVars, authVars, formVars, netVars, modalVars, userData, userValidating, weatherData, openReflectionModal>>
    /\ IF timer.currentIndex < Len(timer.fullGreeting)
       THEN /\ displayedText' = slice(timer.fullGreeting, 0, timer.currentIndex + 1)
            /\ intervals' = (intervals \ {timer})
                            \cup {[timer EXCEPT !.currentIndex = @ + 1]}
            /\ reflectionEffect
       ELSE /\ intervals' = intervals \ {timer}
            /\ UNCHANGED <<displayedText, recommendation, isLoading, isMutating, reflections, toasts>>

\* useSWR(weatherUrl) delivers data
WeatherLoaded(resp) ==
    /\ dashboard = "mounted"
    /\ weatherData # resp
    /\ weatherData' = resp
    /\ UNCHANGED <<chartVars, moodVars, userVars, authVars, formVars, netVars, modalVars, greetVars, openReflectionModal>>
    /\ reflectionEffect

\* onClick={() => setOpenReflectionModal(true)} of the reflection card
OpenReflection ==
    /\ dashboard = "mounted"
    /\ ~userLoading(userData, userValidating)
    /\ ~openReflectionModal
    /\ openReflectionModal' = TRUE
    /\ UNCHANGED <<chartVars, moodVars, userVars, authVars, formVars, netVars, modalVars, greetVars, weatherData>>
    /\ reflectionEffect

\* onClose={() => setOpenReflectionModal(false)}
CloseReflection ==
    /\ dashboard = "mounted"
    /\ openReflectionModal
    /\ openReflectionModal' = FALSE
    /\ UNCHANGED <<chartVars, moodVars, userVars, authVars, formVars, netVars, modalVars, greetVars, weatherData>>
    /\ reflectionEffect

\* 'Get Another Suggestion': shown with a recommendation when nothing loads,
\* disabled={isMutating}
handleRefresh ==
    /\ dashboard = "mounted"
    /\ openReflectionModal
    /\ ~(isLoading \/ isMutating)
    /\ recommendation # Null
    /\ Len(reflections) < MaxInFlight
    /\ UNCHANGED <<chartVars, moodVars, userVars, authVars, formVars, netVars, modalVars, greetVars, weatherData, openReflectionModal, recommendation>>
    /\ fetchRecommendation(moodProp(currentMood), weatherProp(weatherData))

\* 'Try Again': shown without a recommendation when nothing loads
TryAgain ==
    /\ dashboard = "mounted"
    /\ openReflectionModal
    /\ ~(isLoading \/ isMutating)
    /\ recommendation = Null
    /\ Len(reflections) < MaxInFlight
    /\ UNCHANGED <<chartVars, moodVars, userVars, authVars, formVars, netVars, modalVars, greetVars, weatherData, openReflectionModal, recommendation>>
    /\ fetchRecommendation(moodProp(currentMood), weatherProp(weatherData))

\* the i-th pending call of getRecommendation settles and fetchRecommendation
\* resumes after its await; isMutating follows the call started last
ReflectionSettles(i, response) ==
    /\ dashboard = "mounted"
    /\ i \in 1..Len(reflections)
    /\ reflections' = removeAt(reflections, i)
    /\ isMutating' = IF i = Len(reflections) THEN FALSE ELSE isMutating
    /\ isLoading' = FALSE
    /\ \E result \in reflectionResults(response) :
          IF result.kind = "returned"
          THEN IF result.data.success
               THEN /\ recommendation' = result.data.data.recommendation
                    /\ UNCHANGED toasts
               ELSE /\ toasts' = addToast(toasts,
                            Toast("error", messageOr(result.data, "Failed to get recommendation")))
                    /\ UNCHANGED recommendation
          ELSE /\ toasts' = addToast(toasts,
                       Toast("error", messageOr(result.error, "Failed to get recommendation")))
               /\ UNCHANGED recommendation
    /\ UNCHANGED <<chartVars, moodVars, userVars, authVars, formVars, netVars, modalVars, greetVars, weatherData, openReflectionModal>>

----------------------------------------------------------------------------
(* Inputs of the pages *)

\* the values typed into the sign-up form
Names == {"", "Ada"}
Emails == {"", "ada@example.com"}
Passwords == {"", "12345", "123456", "abcdef"}

\* the token the backend issues at sign-up
BackendTokens == {"signup-jwt"}

\* responses of POST /signup
SignupResponses ==
    {Response(TRUE, 201, Json([success |-> TRUE, token |-> t, message |-> "User created"]))
        : t \in BackendTokens}
    \cup {Response(TRUE, 201, Json([success |-> TRUE, token |-> t,
                                    user |-> [type |-> "object", name |-> "Ada"]]))
        : t \in BackendTokens}
    \cup {Response(TRUE, 200, Json([success |-> FALSE, message |-> "Invalid input"])),
          Response(FALSE, 400, Json([success |-> FALSE, message |-> "User already exists"])),
          Response(FALSE, 500, Json([success |-> FALSE])),
          Response(FALSE, 502, NotJson)}

\* messages of the errors signInWithPopup rejects with
PopupMessages == {"Firebase: Error (auth/popup-closed-by-user).", ""}

\* the moods logged and reported while requests are observed
LoggedMoods == {"happy", "sad"}
BackendMoods == {Null} \cup {MoodEntry(m) : m \in LoggedMoods}

ApiTodayResponses == {[success |-> TRUE, data |-> m] : m \in BackendMoods}
ApiKeys == UNION {swrKeys(m) : m \in BackendMoods}

\* responses to the GET requests of the Dashboard
ApiResponses ==
    {Response(TRUE, 200, Json([success |-> TRUE])),
     Response(TRUE, 200, NotJson),
     Response(FALSE, 401, Json([success |-> FALSE, message |-> "Unauthorized"])),
     Response(FALSE, 500, Json([success |-> FALSE])),
     Response(FALSE, 502, NotJson)}

\* responses of POST /mood/today
AddMoodResponses ==
    {Response(TRUE, 201, Json([success |-> TRUE])),
     Response(TRUE, 200, Json([success |-> FALSE, message |-> "Invalid mood"])),
     Response(FALSE, 400, Json([success |-> FALSE, message |-> "Invalid mood"])),
     Response(FALSE, 500, Json([success |-> FALSE]))}

\* renders in the morning (twice), in the afternoon and in the evening
GreetClocks == {[zone |-> UTC, now |-> At(1, 10, hour)] : hour \in {9, 11, 12, 17}}

\* bodies of an ok response of GET /weather/current
WeatherResponses ==
    {[success |-> TRUE, data |-> [type |-> "object", description |-> "clear sky", temperature |-> 21]],
     [success |-> FALSE, data |-> Null]}

\* responses of POST /reflection/recommendation
ReflectionResponses ==
    {Response(TRUE, 200, Json([success |-> TRUE,
                               data |-> [recommendation |-> String("Take a short walk")]])),
     Response(TRUE, 200, Json([success |-> TRUE,
                               data |-> [recommendation |-> String("Write three lines")]])),
     Response(TRUE, 200, Json([success |-> FALSE, message |-> "No recommendation"])),
     Response(FALSE, 500, Json([success |-> FALSE])),
     Response(FALSE, 502, NotJson)}

----------------------------------------------------------------------------
(* Specifications *)

\* the reflection modal before it is opened for the first time
ReflectionClosed ==
    /\ weatherData = Undefined
    /\ openReflectionModal = FALSE
    /\ recommendation = Null
    /\ isLoading = FALSE
    /\ isMutating = FALSE
    /\ reflections = <<>>

\* a page load of any URL on any machine, with or without a stored token
Init ==
    /\ \E clock \in Clocks : now = clock.now /\ tz = clock.zone
    /\ moodsRangeData = [defined |-> FALSE]
    /\ chartData = <<>>
    /\ currentMood = Null
    /\ currentTheme = defaultTheme
    /\ moodCards = renderCards(Null)
    /\ currentUser = Null
    /\ userError = Null
    /\ route \in Urls
    /\ navigationType = "POP"
    /\ dashboard = IF routeElement(route) = "Dashboard" THEN "mounting" ELSE "unmounted"
    /\ token \in Tokens \cup {NoToken}
    /\ user = NoUser
    /\ firebaseUser = FALSE
    /\ toasts = <<>>
    /\ name = ""
    /\ email = ""
    /\ password = ""
    /\ confirmPassword = ""
    /\ inFlight = {}
    /\ settled = Null
    /\ backendMood \in BackendMoods
    /\ openModal = FALSE
    /\ selectedMood = NoMood
    /\ userData = Undefined
    /\ userValidating = (routeElement(route) = "Dashboard")
    /\ displayedText = ""
    /\ intervals = {}
    /\ ReflectionClosed

\* the Dashboard is mounted for a signed-in user and nothing has loaded yet
InitMounted ==
    /\ moodsRangeData = [defined |-> FALSE]
    /\ chartData = <<>>
    /\ currentMood = Null
    /\ currentTheme = defaultTheme
    /\ moodCards = renderCards(Null)
    /\ currentUser = Null
    /\ userError = Null
    /\ route = "/dashboard"
    /\ navigationType = "POP"
    /\ dashboard = "mounted"
    /\ token \in Tokens
    /\ user = NoUser
    /\ toasts = <<>>
    /\ name = ""
    /\ email = ""
    /\ password = ""
    /\ confirmPassword = ""
    /\ inFlight = {}
    /\ settled = Null
    /\ openModal = FALSE
    /\ selectedMood = NoMood
    /\ userData = Undefined
    /\ userValidating = TRUE
    /\ displayedText = ""
    /\ intervals = {}
    /\ ReflectionClosed

\* the mounted Dashboard on any machine
InitChart ==
    /\ InitMounted
    /\ \E clock \in Clocks : now = clock.now /\ tz = clock.zone
    /\ firebaseUser = FALSE
    /\ backendMood = Null

\* a page load on one machine
InitApp ==
    /\ Init
    /\ tz = UTC
    /\ backendMood = Null

\* a page load of the sign-up page
InitSignUp ==
    /\ InitApp
    /\ route = "/signup"

\* the mounted Dashboard of a user who signed in with or without Google
InitApi ==
    /\ InitMounted
    /\ now = At(1, 10, 12)
    /\ tz = UTC
    /\ firebaseUser \in BOOLEAN
    /\ backendMood = Null

\* the mounted Dashboard after its data has loaded
InitLoaded ==
    /\ now = At(1, 10, 12)
    /\ tz = UTC
    /\ moodsRangeData = RangeResponse(TRUE, TRUE, <<>>)
    /\ chartData = processChartData(moodsRangeData, now, tz)
    /\ backendMood \in BackendMoods
    /\ currentMood = backendMood
    /\ currentTheme = moodTheme(currentMood)
    /\ moodCards = renderCards(currentMood)
    /\ currentUser = Null
    /\ userError = Null
    /\ route = "/dashboard"
    /\ navigationType = "POP"
    /\ dashboard = "mounted"
    /\ token \in Tokens
    /\ user = NoUser
    /\ firebaseUser = FALSE
    /\ toasts = <<>>
    /\ name = ""
    /\ email = ""
    /\ password = ""
    /\ confirmPassword = ""
    /\ inFlight = {}
    /\ settled = Null
    /\ openModal = FALSE
    /\ selectedMood = NoMood
    /\ userData = [success |-> FALSE, data |-> Null]
    /\ userValidating = FALSE
    /\ ReflectionClosed

\* ... and the typewriter has finished
InitDash ==
    /\ InitLoaded
    /\ displayedText = fullGreeting(tz, now, currentUser)
    /\ intervals = {}

\* the mounted Dashboard while the user data loads, in the morning
InitGreet ==
    /\ InitMounted
    /\ now = At(1, 10, 9)
    /\ tz = UTC
    /\ firebaseUser = FALSE
    /\ backendMood = Null

\* the mounted Dashboard of a user without a mood, right after its data has
\* loaded: the typewriter has just started
InitReflect ==
    /\ InitLoaded
    /\ backendMood = Null
    /\ displayedText = ""
    /\ intervals = {typeInterval(fullGreeting(tz, now, currentUser))}

NextChart ==
    \/ \E resp \in RangeResponses : RangeDataLoaded(resp)
    \/ \E entry \in Entries, first \in BOOLEAN : RangeRevalidated(entry, first)
    \/ \E clock \in Clocks : ReRender(clock)

NextApp ==
    \/ \E url \in Urls : Goto(url)
    \/ RootRedirect
    \/ DashboardAuthEffect
    \/ GoogleSignUpSucceeds
    \/ \E t \in Tokens : StorageSetToken(t)
    \/ StorageClear
    \/ \E ok \in BOOLEAN : Logout(ok)
    \/ \E resp \in TodayResponses : TodayMoodLoaded(resp)
    \/ \E resp \in UserResponses : UserMeLoaded(resp)
    \/ \E error \in UserErrors : UserMeFailed(error)
    \/ UserMeRevalidates

NextSignUp ==
    \/ \E v \in Names : setName(v)
    \/ \E v \in Emails : setEmail(v)
    \/ \E v \in Passwords : setPassword(v)
    \/ \E v \in Passwords : setConfirmPassword(v)
    \/ handleEmailSignUp
    \/ \E req \in inFlight, response \in SignupResponses : SignUpSettles(req, response)
    \/ GoogleSignUpSucceeds
    \/ \E message \in PopupMessages : GoogleSignUpFails(message)
    \/ DashboardAuthEffect
    \/ \E i \in 1..ToastLimit : ToastExpires(i)

NextApi ==
    \/ \E key \in ApiKeys : SWRFetch(key)
    \/ \E req \in inFlight, response \in ApiResponses : Settle(req, response)
    \/ \E resp \in ApiTodayResponses : TodayMoodLoaded(resp)
    \/ \E ok \in BOOLEAN : Logout(ok)

TodayRevalidates == \E req \in inFlight : TodayRevalidated(req)
RangeMutates == \E req \in inFlight, first \in BOOLEAN : RangeMutated(req, first)

NextDash ==
    \/ OpenModal
    \/ \E m \in LoggedMoods : setSelectedMood(m)
    \/ handleClose
    \/ handleSubmit
    \/ \E req \in inFlight, response \in AddMoodResponses : AddMoodSettles(req, response)
    \/ TodayRevalidates
    \/ RangeMutates

TypeTicks == \E timer \in intervals : TypeTick(timer)

NextGreet ==
    \/ \E resp \in UserResponses : UserMeLoaded(resp)
    \/ \E error \in UserErrors : UserMeFailed(error)
    \/ UserMeRevalidates
    \/ \E clock \in GreetClocks : ReRender(clock)
    \/ TypeTicks
    \/ \E ok \in BOOLEAN : Logout(ok)

ReflectionSettling ==
    \E i \in 1..Len(reflections), response \in ReflectionResponses :
        ReflectionSettles(i, response)

NextReflect ==
    \/ TypeTicks
    \/ \E resp \in WeatherResponses : WeatherLoaded(resp)
    \/ OpenReflection
    \/ CloseReflection
    \/ handleRefresh
    \/ TryAgain
    \/ ReflectionSettling

Next == NextChart \/ NextApp \/ NextSignUp \/ NextApi \/ NextDash \/ NextGreet \/ NextReflect

Spec == Init /\ [][Next]_vars

\* the trend chart of a mounted Dashboard
SpecChart == InitChart /\ [][NextChart]_vars

\* routing, authentication and the current mood
SpecApp == InitApp /\ [][NextApp]_vars

\* effects of a rendered route run to completion
FairSpecApp == SpecApp /\ WF_vars(DashboardAuthEffect) /\ WF_vars(RootRedirect)

\* the sign-up page
SpecSignUp == InitSignUp /\ [][NextSignUp]_vars

\* the requests of the mounted Dashboard and their outcomes
SpecApi == InitApi /\ [][NextApi]_vars

\* logging a mood on the mounted Dashboard
SpecDash == InitDash /\ [][NextDash]_vars

\* the revalidation of '/mood/today' started by mutate() completes
FairSpecDash == SpecDash /\ WF_vars(TodayRevalidates)

\* the typewriter; a timer that is not cleared keeps ticking
SpecGreet == InitGreet /\ [][NextGreet]_vars
FairSpecGreet == SpecGreet /\ WF_vars(TypeTicks)

\* the reflection modal; a pending request settles
SpecReflect == InitReflect /\ [][NextReflect]_vars
FairSpecReflect == SpecReflect /\ WF_vars(ReflectionSettling)

----------------------------------------------------------------------------
(* Properties of the trend chart (checked under SpecChart) *)

\* the range response carries a non-empty list of entries
HasEntries ==
    /\ moodsRangeData.defined
    /\ moodsRangeData.success
    /\ moodsRangeData.hasData
    /\ Len(moodsRangeData.data) > 0

\* the entries of the loaded list whose timestamp falls on the UTC date key
EntriesOn(key) ==
    SelectSeq(moodsRangeData.data, LAMBDA e : toISODate(e.date) = key)

\* the day number of a dateKey
DayNoOf(key) == At(key[2], key[3], 0) \div 24

\* the documented score of a label: the fixed table, and 3 for any other label
DocumentedScore(label) ==
    CASE label = "happy" -> 5
      [] label = "calm" -> 4
      [] label = "neutral" -> 3
      [] label = "sad" -> 2
      [] label = "angry" -> 1
      [] OTHER -> 3

RECURSIVE DocumentedSum(_)
DocumentedSum(entries) ==
    IF entries = <<>> THEN 0
    ELSE DocumentedScore(Head(entries).mood) + DocumentedSum(Tail(entries))

C2_ConsecutiveDays ==
    Len(chartData) > 0 =>
        /\ chartData[Len(chartData)].dateKey = toISODate(now)
        /\ \A i \in 1..(Len(chartData) - 1) :
               DayNoOf(chartData[i + 1].dateKey) = DayNoOf(chartData[i].dateKey) + 1

\* C3 as stated: every dateKey with an entry has a bucket in the grouping
\* step with one score per entry of that date, whose avgMood is the mean of
\* the documented scores of those entries.
C3_GroupMean ==
    HasEntries =>
        LET dailyData == dailyDataOf(tz, moodsRangeData.data)
        IN \A i \in 1..Len(moodsRangeData.data) :
               LET key == toISODate(moodsRangeData.data[i].date)
                   on == EntriesOn(key)
               IN /\ key \in DOMAIN dailyData
                  /\ Len(dailyData[key].moods) = Len(on)
                  /\ dailyData[key].avgMood = Div(DocumentedSum(on), Len(on))

\* C4 as stated: every collected score is the documented score of its
\* entry's label, an integer in 1..5, whatever the label is.
C4_ScoreTotal ==
    HasEntries =>
        LET dailyData == dailyDataOf(tz, moodsRangeData.data)
        IN \A key \in DOMAIN dailyData :
               \A j \in 1..Len(dailyData[key].moods) :
                   /\ dailyData[key].moods[j] = Number(DocumentedScore(EntriesOn(key)[j].mood))
                   /\ dailyData[key].moods[j].num \in 1..5

C6_SentinelOrMean ==
    \A i \in 1..Len(chartData) :
        IF EntriesOn(chartData[i].dateKey) = <<>>
        THEN chartData[i].avgMood = Num(0)
        ELSE InRange(chartData[i].avgMood, 1, 5)

\* C7 as stated: the weekday and the month/day label of every bucket are
\* those of the calendar date its dateKey names.
C7_LabelsMatchDateKey ==
    \A i \in 1..Len(chartData) :
        LET key == chartData[i].dateKey
        IN /\ chartData[i].date = [month |-> MonthNames[key[2]], day |-> key[3]]
           /\ chartData[i].day = WeekdayNames[(DayNoOf(key) % 7) + 1]

\* C9 as stated: two consecutive invocations on the same entries, on the
\* same machine and on the same current date (the same local and the same
\* UTC calendar date) return the same window.
C9_SameDateSameWindow ==
    [][(/\ moodsRangeData' = moodsRangeData
        /\ tz' = tz
        /\ toISODate(now') = toISODate(now)
        /\ toLocal(tz, now') \div 24 = toLocal(tz, now) \div 24)
          => chartData' = chartData]_vars

\* how often each score occurs in the moods of a bucket
ScoreCounts(bucket) ==
    IF "moods" \in DOMAIN bucket
    THEN [x \in {bucket.moods[i] : i \in DOMAIN bucket.moods} |->
            Cardinality({i \in DOMAIN bucket.moods : bucket.moods[i] = x})]
    ELSE <<>>

\* two windows agree position by position in dateKey, labels, scores as a
\* multiset and average
SameWindow(a, b) ==
    /\ Len(a) = Len(b)
    /\ \A i \in 1..Len(a) :
        /\ a[i].dateKey = b[i].dateKey
        /\ a[i].day = b[i].day
        /\ a[i].date = b[i].date
        /\ ("moods" \in DOMAIN a[i]) = ("moods" \in DOMAIN b[i])
        /\ ScoreCounts(a[i]) = ScoreCounts(b[i])
        /\ a[i].avgMood = b[i].avgMood

\* C19 as stated: the window does not depend on the order of the entries:
\* every permutation of the list yields, position by position, the same
\* dateKey, the same labels, the same multiset of scores and the same average.
C19_OrderIndependent ==
    HasEntries =>
        \A f \in Permutations(1..Len(moodsRangeData.data)) :
            SameWindow(chartData,
                processChartData(
                    RangeResponse(TRUE, TRUE,
                        [i \in 1..Len(moodsRangeData.data) |-> moodsRangeData.data[f[i]]]),
                    now, tz))

----------------------------------------------------------------------------
(* Properties of the mood descriptors and of routing (checked under SpecApp) *)

\* C8 as stated: for a label outside the five known ones the playlist name,
\* the movie genre and the documented recommendation are those of neutral,
\* and the recommendation is a profile with its descriptors, never an error.
C8_UnknownFallsBackToNeutral ==
    (currentMood # Null /\ currentMood.mood \notin KnownLabels) =>
        /\ moodCards.playlist = getMoodPlaylistName("neutral")
        /\ moodCards.movies.genre = getMoodMovieGenre("neutral")
        /\ getRecommendations(currentMood.mood) = getRecommendations("neutral")
        /\ DOMAIN getRecommendations(currentMood.mood)
               = {"type", "spotify", "movies", "activities"}

\* C10: whenever the Dashboard is entered while localStorage holds no token,
\* the application navigates to /signin.
C10_NoTokenLeadsToSignIn ==
    (dashboard = "mounting" /\ token = NoToken) ~> (route = "/signin")

\* the Dashboard was entered without a token and its effect has navigated
C10_Witness ==
    /\ dashboard = "redirected"
    /\ route = "/signin"
    /\ token = NoToken

----------------------------------------------------------------------------
(* Properties of the sign-up page (checked under SpecSignUp) *)

\* the sign-up request settles in this step
SignUpSettled == loading /\ ~loading' /\ settled' # Null

\* the response that settled reports a successful sign-up
SignUpSucceeded ==
    /\ settled'.response.ok
    /\ settled'.response.body.json
    /\ settled'.response.body.value.success

GoogleSignedUp ==
    /\ routeElement(route) = "SignUp"
    /\ ~loading
    /\ route' = "/dashboard"

\* C13 as stated: when the Google popup succeeds on the sign-up page a request
\* carries the Firebase token to the backend and a JWT is in localStorage
\* 'token' as the Dashboard is entered.
C13_GoogleSignUpStoresJwt ==
    [][GoogleSignedUp => (token' # NoToken /\ inFlight' # inFlight)]_vars

\* the four fields pass the three validations of handleEmailSignUp
validForm ==
    /\ name # "" /\ email # "" /\ password # "" /\ confirmPassword # ""
    /\ password = confirmPassword
    /\ Len(password) >= 6

----------------------------------------------------------------------------
(* Properties of the API client (checked under SpecApi) *)

C16_ThrowsWithStatusUnlessOk ==
    settled # Null =>
        IF settled.response.ok
        THEN /\ settled.result.kind = "returned"
             /\ settled.response.body.json
             /\ settled.result.data = settled.response.body.value
        ELSE /\ settled.result.kind = "thrown"
             /\ settled.result.error.name = "Error"
             /\ "status" \in DOMAIN settled.result.error
             /\ settled.result.error.status = settled.response.status
             /\ settled.response.body.json
             /\ settled.result.error.message
                    = messageOr(settled.response.body.value, "Request failed")

\* the endpoints listed in the README
DocumentedEndpoints ==
    {[method |-> "POST", path |-> "/signup"],
     [method |-> "POST", path |-> "/signin"],
     [method |-> "GET", path |-> "/user/me"],
     [method |-> "GET", path |-> "/mood/today"],
     [method |-> "POST", path |-> "/mood/today"],
     [method |-> "GET", path |-> "/mood/range"],
     [method |-> "GET", path |-> "/weather/current"],
     [method |-> "GET", path |-> "/spotify/playlists"],
     [method |-> "GET", path |-> "/movie/recommendations"],
     [method |-> "POST", path |-> "/reflection/recommendation"]}

\* method and path of a request, relative to the base URL of the API
endpointOf(req) ==
    [method |-> IF "method" \in DOMAIN req.config THEN req.config.method ELSE "GET",
     path |-> pathOf(SubSeq(req.url, Len(API_BASE_URL) + 1, Len(req.url)))]

\* C17 as stated: every request goes to an endpoint listed in the README; the
\* movie modal's request goes to /movie/recommendations.
C17_RequestsAreDocumented ==
    \A req \in inFlight : endpointOf(req) \in DocumentedEndpoints

----------------------------------------------------------------------------
(* Properties of the failing user request (checked under SpecApp) *)

\* C18: when /user/me fails with status 401 or with a message containing
\* 'token' or 'Unauthorized', 'token' and 'user' are removed and the page
\* navigates to /signin; for any other error both items and the route are
\* unchanged.
C18_AuthErrorSignsOut ==
    [][\A error \in UserErrors : UserMeFailed(error) =>
        IF \/ ("status" \in DOMAIN error /\ error.status = 401)
           \/ includes(error.message, "token")
           \/ includes(error.message, "Unauthorized")
        THEN /\ token' = NoToken
             /\ user' = NoUser
             /\ route' = "/signin"
        ELSE /\ token' = token
             /\ user' = user
             /\ route' = route]_vars

\* /user/me failed with status 401 and a body without a message
C18_Witness ==
    /\ userError # Null
    /\ userError.message = "Request failed"
    /\ "status" \in DOMAIN userError
    /\ userError.status = 401
    /\ token = NoToken
    /\ route = "/signin"

----------------------------------------------------------------------------
(* Properties of logging a mood (checked under FairSpecDash) *)

\* the revalidation of a key is in flight
revalidating(key) ==
    \E req \in inFlight : req.url = API_BASE_URL \o key /\ "method" \notin DOMAIN req.config

\* the request of handleSubmit settles in this step
AddMoodSettled == isAddingMood /\ ~isAddingMood'

\* the response that settled reports a logged mood
AddMoodSucceeded ==
    /\ settled'.response.ok
    /\ settled'.response.body.json
    /\ settled'.response.body.value.success

----------------------------------------------------------------------------
(* Properties of the typewriter (checked under FairSpecGreet) *)

\* the greeting of the last render
shownGreeting == fullGreeting(tz, now, currentUser)

\* every text the greeting can be
Greetings ==
    {fullGreeting(clock.zone, clock.now, u) :
        clock \in GreetClocks,
        u \in {Null} \cup {resp.data : resp \in {r \in UserResponses : r.success}}}

isPrefix(text, full) ==
    /\ Len(text) <= Len(full)
    /\ text = slice(full, 0, Len(text))

\* the Dashboard shows the greeting: it is mounted and the user data is not
\* loading, which is the condition under which the effect types
typing == dashboard = "mounted" /\ ~userLoading(userData, userValidating)

----------------------------------------------------------------------------
(* Properties of the reflection modal (checked under SpecReflect) *)

\* a step that sends a recommendation request
requestSent == Len(reflections') > Len(reflections)

\* C22 as stated: while the reflection modal stays open and the mood and the
\* weather values (description, temperature) are unchanged, only a click on
\* 'Get Another Suggestion' or on 'Try Again' sends a recommendation
\* request, and opening the modal sends exactly one.
C22_OneRequestPerOpeningOrClick ==
    /\ [][(/\ openReflectionModal
            /\ openReflectionModal'
            /\ moodProp(currentMood') = moodProp(currentMood)
            /\ weatherProp(weatherData') = weatherProp(weatherData)
            /\ requestSent)
           => (handleRefresh \/ TryAgain)]_vars
    /\ [][OpenReflection => Len(reflections') = Len(reflections) + 1]_vars

\* C23 as stated: whenever the reflection modal is closed and no
\* recommendation request is in flight, recommendation is null, also when
\* the response of a request arrives after the modal was closed; and every
\* request that was started clears isLoading when it settles, whatever its
\* outcome, which it eventually does.
C23_ClosedModalHasNoRecommendation ==
    /\ []((~openReflectionModal /\ reflections = <<>>) => recommendation = Null)
    /\ [][ReflectionSettling => ~isLoading']_vars
    /\ isLoading ~> ~isLoading

----------------------------------------------------------------------------
(* Properties of logging out (checked under SpecApp) *)

\* handleLogout ran to its end: it navigated to the sign-in page
LoggedOut == (\E ok \in BOOLEAN : Logout(ok)) /\ dashboard' = "unmounted"

\* C24 as stated: when handleLogout has completed, the MoodContext holds
\* nothing of the user who logged out: currentUser and currentMood are null
\* and currentTheme is the default theme.
C24_LogoutClearsTheContext ==
    [][LoggedOut => (/\ currentUser' = Null
                     /\ currentMood' = Null
                     /\ currentTheme' = defaultTheme)]_vars

====
